---- MODULE Spec2Model ----
(***************************************************************************)
(* Upsert reconciliation engine of the fee-schedule pipelines:             *)
(* backend/app/cpt_automated_scripts/database_utils.py and the per-source  *)
(* handlers (database.py of each source).  A storage call is one step; local *)
(* computation is folded into the step of the storage call before it.      *)
(***************************************************************************)
EXTENDS Integers, Sequences, FiniteSets, TLC

\* ---------------------------------------------------------------- bounds
MaxLen == 2        \* longest list of hand-picked records in a batch
MaxRuns == 2       \* reconcile runs started in one behaviour
MaxFaults == 2     \* storage calls that raise in one behaviour
MaxExtract == 3     \* longest raw extract handed to a source handler
LookupFaults == 1   \* storage calls that raise in a pipeline run or a bulk run
RaceLen == 1       \* longest batch of two runs in progress at once
MaxJobs == 3       \* scraper jobs requested in one behaviour

\* ------------------------------------------------------- program constants
SAMPLE_SIZE == 50
DEFAULT_CHUNK_SIZE == 1000

\* ------------------------------------------------------------ value domain
\* Python None / SQL NULL.
Null == "<null>"

\* A code is a Python value: a str or an int (spreadsheet cells come as either).
StrCode(n) == [t |-> "str", v |-> n]
IntCode(n) == [t |-> "int", v |-> n]

\* str(code): an int becomes the string of its digits, a str stays itself.
PyStr(c) == [t |-> "str", v |-> c.v]

\* bool(x) of a string-or-None field: None and "" are falsy.
Truthy(x) == x # Null /\ x # ""

\* A record: the fields the pipeline reads, and val for the rate fields.
\* A key that is absent from the dict and a key holding None both read as Null.
RecordOf(src, c, rd, rel, gz, dt, val) ==
    [source |-> src, code |-> c, release_date |-> rd, rel_date |-> rel,
     geozip |-> gz, data_type |-> dt, val |-> val]

\* key = (source, code_normalized, release_date, geozip) of an incoming record
RecordKey(rec) == <<rec.source, PyStr(rec.code), rec.release_date, rec.geozip>>

\* key = (existing.source, str(existing.code), existing.release_date, existing.geozip)
\* The same key with the stored geozip coalesced, '' read as None.
ExistingKeyCoalesced(row) ==
    <<row.source, PyStr(row.code), row.release_date,
      IF Truthy(row.geozip) THEN row.geozip ELSE Null>>

ExistingKey(row) == <<row.source, PyStr(row.code), row.release_date, row.geozip>>

\* -------------------------------------------------------------- the store
\* The table is a sequence of rows; a row's surrogate id is its position.
\* The code column is text: a value sent as an int is stored as its digits.
RowOf(rec) ==
    [source |-> rec.source, code |-> PyStr(rec.code),
     release_date |-> rec.release_date, geozip |-> rec.geozip,
     data_type |-> rec.data_type, val |-> rec.val]

\* The table's composite unique constraint (source, code, release_date, geozip).
Conflicts(st, rec) ==
    \E i \in 1..Len(st) : ExistingKey(st[i]) = RecordKey(rec)

\* Two rows of one bulk insert violate the constraint among themselves.
SelfConflicts(recs) ==
    \E i, j \in 1..Len(recs) : i < j /\ RecordKey(recs[i]) = RecordKey(recs[j])

RECURSIVE InsertAll(_, _)
\* client.table(t).insert(records_to_insert).execute(), when it is accepted
InsertAll(st, recs) ==
    IF recs = <<>> THEN st
    ELSE InsertAll(Append(st, RowOf(Head(recs))), Tail(recs))

\* An update done as delete and insert: the row of the id is gone and the
\* record is stored under a new id.
UpdateByReplace(st, id, rec) ==
    Append([st EXCEPT ![id] = [@ EXCEPT !.source = "deleted"]], RowOf(rec))

\* client.table(t).update(record).eq("id", record_id).execute()
UpdateRow(st, id, rec) == [st EXCEPT ![id] = RowOf(rec)]

\* select id, code, source, release_date, geozip
\*   where source = source_name and release_date = rd and code in codes
QueryExisting(st, source_name, rd, codes) ==
    {i \in 1..Len(st) :
        /\ st[i].source = source_name
        /\ st[i].release_date = rd
        /\ st[i].code \in {PyStr(c) : c \in codes}}

\* select id, count = exact where source = source_name and release_date = rd
CountRows(st, source_name, rd) ==
    Cardinality({i \in 1..Len(st) :
        st[i].source = source_name /\ st[i].release_date = rd})

\* ---------------------------------------------------------- _process_chunk
Max(S) == CHOOSE x \in S : \A y \in S : y <= x
Min2(a, b) == IF a < b THEN a ELSE b

\* codes_in_chunk = [r.get('code') for r in chunk if r.get('code')]
CodesInChunk(chunk) ==
    {chunk[i].code : i \in {j \in 1..Len(chunk) : chunk[j].code.t # "none"}}

\* A lookup keyed by source, code and geozip alone, as by a surrogate identity.
MatchingAnyRelease(st, ids, key) ==
    {i \in ids : /\ ExistingKey(st[i])[1] = key[1]
                 /\ ExistingKey(st[i])[2] = key[2]
                 /\ ExistingKey(st[i])[4] = key[4]}

\* The ids the lookup dict holds for a key; the dict keeps the row read last.
Matching(st, ids, key) == {i \in ids : ExistingKey(st[i]) = key}

\* key in existing_records
Found(st, ids, rec) == Matching(st, ids, RecordKey(rec)) # {}

RECURSIVE ToInsert(_, _, _)
\* records_to_insert: the records of the chunk whose key is not in the lookup
ToInsert(chunk, st, ids) ==
    IF chunk = <<>> THEN <<>>
    ELSE IF Found(st, ids, Head(chunk))
         THEN ToInsert(Tail(chunk), st, ids)
         ELSE <<Head(chunk)>> \o ToInsert(Tail(chunk), st, ids)

RECURSIVE ToUpdate(_, _, _)
\* records_to_update: the records whose key is in the lookup, with the row id
ToUpdate(chunk, st, ids) ==
    IF chunk = <<>> THEN <<>>
    ELSE IF Found(st, ids, Head(chunk))
         THEN <<[rec |-> Head(chunk),
                 id |-> Max(Matching(st, ids, RecordKey(Head(chunk))))]>>
              \o ToUpdate(Tail(chunk), st, ids)
         ELSE ToUpdate(Tail(chunk), st, ids)

\* ------------------------------------------------------ the source handlers
NJ_DOBI_RELEASE_DATE == "January 2024"

\* What distinguishes the handlers: the source they stamp, has_geozip, the key
\* of their dedup loop, and the constant date New Jersey DOBI falls back to.
Handlers ==
    { [source_name |-> "Fair Health Facility", has_geozip |-> TRUE,
       dedup |-> "composite", fallback |-> Null],
      [source_name |-> "Fair Health Physicians", has_geozip |-> TRUE,
       dedup |-> "composite", fallback |-> Null],
      [source_name |-> "Medicare Clinical Fees", has_geozip |-> FALSE,
       dedup |-> "composite", fallback |-> Null],
      [source_name |-> "Novitas", has_geozip |-> FALSE,
       dedup |-> "composite", fallback |-> Null],
      [source_name |-> "Horizon_ASC", has_geozip |-> TRUE,
       dedup |-> "horizon", fallback |-> Null],
      [source_name |-> "New Jersey DOBI", has_geozip |-> FALSE,
       dedup |-> "composite", fallback |-> NJ_DOBI_RELEASE_DATE] }

\* not code or (isinstance(code, str) and code.strip() == '')
CodeMissing(c) == c.t \in {"none", "blank"}

\* A lookup whose failure reaches insert_records.
LookupErrorEscapes == [raised |-> TRUE, value |-> Null]

\* get_existing_release_date when the query raises: the except of lines
\* 41-43 logs and returns None.
LookupFailed == [raised |-> FALSE, value |-> Null]

\* get_existing_release_date: the release_date of any one row of the source
\* (limit 1, no order), or None when there is none or it is empty.
ExistingReleaseDates(st, source_name) ==
    LET rows == {i \in 1..Len(st) : st[i].source = source_name}
    IN  IF rows = {} THEN {Null}
        ELSE {IF Truthy(st[i].release_date) THEN st[i].release_date ELSE Null
              : i \in rows}

\* A preparer that promotes the record's rel_date before it looks at the
\* release_date the store already holds for the source.
PrepareRelDateFirst(record, source_name, existing_release_date, has_geozip) ==
    IF CodeMissing(record.code) THEN <<>>
    ELSE LET r1 == [record EXCEPT !.source = source_name]
             r2 == [r1 EXCEPT !.geozip =
                        IF ~has_geozip THEN Null
                        ELSE IF ~Truthy(@) THEN Null ELSE @]
         IN  IF Truthy(r2.release_date) THEN <<r2>>
             ELSE IF Truthy(r2.rel_date)
                  THEN <<[r2 EXCEPT !.release_date = r2.rel_date]>>
             ELSE IF Truthy(existing_release_date)
                  THEN <<[r2 EXCEPT !.release_date = existing_release_date]>>
             ELSE <<>>

\* A preparer that leaves the extracted geozip as it is.
PrepareKeepGeozip(record, source_name, existing_release_date, has_geozip) ==
    IF CodeMissing(record.code) THEN <<>>
    ELSE LET r2 == [record EXCEPT !.source = source_name]
         IN  IF Truthy(r2.release_date) THEN <<r2>>
             ELSE IF Truthy(existing_release_date)
                  THEN <<[r2 EXCEPT !.release_date = existing_release_date]>>
             ELSE IF Truthy(r2.rel_date)
                  THEN <<[r2 EXCEPT !.release_date = r2.rel_date]>>
             ELSE <<>>

\* prepare_record_for_insertion: <<>> for None, else the prepared record
PrepareRecord(record, source_name, existing_release_date, has_geozip) ==
    IF CodeMissing(record.code) THEN <<>>
    ELSE LET r1 == [record EXCEPT !.source = source_name]
             r2 == [r1 EXCEPT !.geozip =
                        IF ~has_geozip THEN Null
                        ELSE IF ~Truthy(@) THEN Null ELSE @]
         IN  IF Truthy(r2.release_date) THEN <<r2>>
             ELSE IF Truthy(existing_release_date)
                  THEN <<[r2 EXCEPT !.release_date = existing_release_date]>>
             ELSE IF Truthy(r2.rel_date)
                  THEN <<[r2 EXCEPT !.release_date = r2.rel_date]>>
             ELSE <<>>

RECURSIVE ValidateAbortOnReject(_, _, _)
\* A validation loop that stops at the first record the preparer rejects.
ValidateAbortOnReject(h, records, existing_release_date) ==
    IF records = <<>> THEN <<>>
    ELSE LET fallback_date == IF Truthy(existing_release_date)
                              THEN existing_release_date ELSE h.fallback
             rec == Head(records)
             r0 == IF h.fallback # Null /\ ~Truthy(rec.rel_date)
                   THEN [rec EXCEPT !.rel_date = fallback_date] ELSE rec
             prepared == PrepareRecord(r0, h.source_name, existing_release_date,
                                       h.has_geozip)
         IN  IF prepared = <<>> THEN <<>>
             ELSE prepared \o ValidateAbortOnReject(h, Tail(records),
                                                    existing_release_date)

RECURSIVE ValidateAndPrepare(_, _, _)
\* _validate_and_prepare_records: the loop over the extract
ValidateAndPrepare(h, records, existing_release_date) ==
    IF records = <<>> THEN <<>>
    ELSE LET fallback_date == IF Truthy(existing_release_date)
                              THEN existing_release_date ELSE h.fallback
             rec == Head(records)
             r0 == IF h.fallback # Null /\ ~Truthy(rec.rel_date)
                   THEN [rec EXCEPT !.rel_date = fallback_date] ELSE rec
         IN  PrepareRecord(r0, h.source_name, existing_release_date, h.has_geozip)
             \o ValidateAndPrepare(h, Tail(records), existing_release_date)

\* x or None
OrNone(x) == IF Truthy(x) THEN x ELSE Null

\* The key of the dedup loop of insert_records.
DedupKey(h, record) ==
    IF h.dedup = "horizon"
    THEN <<record.source, record.code, OrNone(record.geozip),
           IF Truthy(record.data_type) THEN record.data_type ELSE "ASC Commercial">>
    ELSE <<record.source, record.code,
           IF Truthy(record.release_date) THEN record.release_date
           ELSE IF record.rel_date = Null THEN "Unknown" ELSE record.rel_date,
           OrNone(record.geozip)>>

NoDedup ==
    [seen_keys |-> {}, deduplicated_records |-> <<>>, duplicates_removed |-> 0,
     \* bookkeeping read by the properties only: <<overwritten, overwriting>>
     replaced |-> {}]

\* A dedup loop that keeps the first record of a key and drops the later ones.
DedupKeepFirst(d, key, record) ==
    IF \E p \in d.seen_keys : p[1] = key
    THEN [d EXCEPT !.duplicates_removed = @ + 1]
    ELSE [d EXCEPT !.seen_keys = @ \cup {<<key, Len(d.deduplicated_records) + 1>>},
                   !.deduplicated_records = Append(@, record)]

\* A dedup loop that moves a key seen again to the end of the list.
DedupMoveLast(d, key, record) ==
    IF \E p \in d.seen_keys : p[1] = key
    THEN LET index == (CHOOSE p \in d.seen_keys : p[1] = key)[2]
             kept == [i \in 1..Len(d.deduplicated_records) - 1 |->
                         IF i < index THEN d.deduplicated_records[i]
                         ELSE d.deduplicated_records[i + 1]]
         IN  [d EXCEPT !.duplicates_removed = @ + 1,
                       !.deduplicated_records = Append(kept, record),
                       !.seen_keys =
                           {<<p[1], IF p[2] > index THEN p[2] - 1 ELSE p[2]>>
                            : p \in {q \in @ : q[1] # key}}
                           \cup {<<key, Len(d.deduplicated_records)>>}]
    ELSE [d EXCEPT !.seen_keys = @ \cup {<<key, Len(d.deduplicated_records) + 1>>},
                   !.deduplicated_records = Append(@, record)]

\* One iteration of the dedup loop: overwrite at the index of a seen key, else append.
DedupOne(d, key, record) ==
    IF \E p \in d.seen_keys : p[1] = key
    THEN LET index == (CHOOSE p \in d.seen_keys : p[1] = key)[2]
         IN  [d EXCEPT !.duplicates_removed = @ + 1,
                       !.deduplicated_records[index] = record,
                       !.replaced = @ \cup {<<d.deduplicated_records[index], record>>}]
    ELSE [d EXCEPT !.seen_keys = @ \cup {<<key, Len(d.deduplicated_records) + 1>>},
                   !.deduplicated_records = Append(@, record)]

\* ------------------------------------------------------------------ state
Runs == {"a", "b"}

VARIABLES
    store,      \* rows of the historical table
    run,        \* per run: the locals of upsert_records_with_composite_key
    budget,     \* storage calls that may still raise
    started,    \* runs started so far
    last,       \* summary of the run that finished last
    pipe,       \* the locals of a handler's insert_records
    jobs,       \* the scraper_jobs table, each job's container and its task
    cron        \* the locals of the scheduler's execute_all_scrapers

vars == <<store, run, budget, started, last, pipe, jobs, cron>>

NoResult == [status |-> "none", records_inserted |-> 0, records_updated |-> 0,
             records_upserted |-> 0, records_failed |-> 0, failed_chunks |-> <<>>]

NoRun == [source |-> Null, records |-> <<>>, rows0 |-> 0, rows1 |-> 0,
          faulted |-> FALSE, status |-> "none"]

Idle ==
    [pc |-> "idle", source_name |-> Null, records |-> <<>>, chunk_size |-> 0,
     in_sample |-> FALSE, start_index |-> 0, i |-> 0, chunk |-> <<>>,
     chunk_num |-> 0, ids |-> {},
     records_to_insert |-> <<>>, records_to_update |-> <<>>, k |-> 0,
     chunk_inserted |-> 0, chunk_updated |-> 0,
     total_inserted |-> 0, total_updated |-> 0, total_failed |-> 0,
     failed_chunks |-> <<>>, release_dates |-> {}, total_existing |-> 0,
     result |-> NoResult,
     \* bookkeeping of what happened, read by the properties only
     rows0 |-> 0, prev |-> NoRun, faulted |-> FALSE, counted_updated |-> {},
     query_failed |-> {}, write_failed |-> {}, raised_in |-> {},
     all_raised |-> FALSE,
     rejected |-> {}, count_failed |-> FALSE,
     \* the rows of the table when the call was made
     store0 |-> <<>>,
     \* every call of _process_chunk: its number, whether it is the sample, its records
     handed |-> <<>>]

\* The locals of the call are gone once it has returned.
Returned(rn) ==
    [rn EXCEPT
        !.pc = "done", !.chunk = <<>>, !.ids = {}, !.records_to_insert = <<>>,
        !.records_to_update = <<>>, !.k = 0, !.i = 0, !.start_index = 0,
        !.chunk_num = 0, !.chunk_inserted = 0, !.chunk_updated = 0,
        !.release_dates = {}, !.total_existing = 0, !.in_sample = FALSE,
        !.all_raised = FALSE]

\* A result whose records_upserted leaves the updates out.
FinishUpsertedIsInserted(rn) ==
    [Returned(rn) EXCEPT
        !.result = [status |-> IF rn.total_failed = 0 THEN "success"
                               ELSE "partial_success",
                    records_inserted |-> rn.total_inserted,
                    records_updated |-> rn.total_updated,
                    records_upserted |-> rn.total_inserted,
                    records_failed |-> rn.total_failed,
                    failed_chunks |-> rn.failed_chunks]]

\* lines 220-228: the result after the chunk loop
Finish(rn) ==
    [Returned(rn) EXCEPT
        !.result = [status |-> IF rn.total_failed = 0 THEN "success"
                               ELSE "partial_success",
                    records_inserted |-> rn.total_inserted,
                    records_updated |-> rn.total_updated,
                    records_upserted |-> rn.total_inserted + rn.total_updated,
                    records_failed |-> rn.total_failed,
                    failed_chunks |-> rn.failed_chunks]]

\* An early exit that reports the status of a completed loop.
EarlyExitAsSuccess(rn) == Finish(rn)

\* An early exit that reports the records it did not look at as failed.
EarlyExitCountsRest(rn) ==
    [Returned(rn) EXCEPT
        !.result = [status |-> "already_synced",
                    records_inserted |-> 0,
                    records_updated |-> rn.chunk_updated,
                    records_upserted |-> rn.chunk_updated,
                    records_failed |-> Len(rn.records) - SAMPLE_SIZE,
                    failed_chunks |-> <<>>]]

\* lines 169-178: the early exit
AlreadySynced(rn) ==
    [Returned(rn) EXCEPT
        !.result = [status |-> "already_synced",
                    records_inserted |-> 0,
                    records_updated |-> rn.chunk_updated,
                    records_upserted |-> rn.chunk_updated,
                    records_failed |-> 0,
                    failed_chunks |-> <<>>]]

\* lines 291-296: entry of _process_chunk
EnterChunk(rn, chunk, num, sample) ==
    [rn EXCEPT
        !.pc = "query", !.chunk = chunk, !.chunk_num = num,
        !.in_sample = sample, !.ids = {},
        !.handed = Append(@, [num |-> num, sample |-> sample, chunk |-> chunk]),
        !.records_to_insert = <<>>, !.records_to_update = <<>>, !.k = 0,
        !.chunk_inserted = 0, !.chunk_updated = 0, !.all_raised = FALSE]

\* lines 191-196: for i in range(start_index, len(records), chunk_size)
LoopNext(rn) ==
    IF rn.i < Len(rn.records)
    THEN EnterChunk(rn,
            SubSeq(rn.records, rn.i + 1,
                   Min2(rn.i + rn.chunk_size, Len(rn.records))),
            ((rn.i - rn.start_index) \div rn.chunk_size) + 1,
            FALSE)
    ELSE Finish(rn)

\* A loop that starts at the first record although the sample was processed.
AfterSampleFromStart(rn) ==
    LoopNext([rn EXCEPT
        !.total_inserted = rn.total_inserted + rn.chunk_inserted,
        !.total_updated = rn.total_updated + rn.chunk_updated,
        !.start_index = 0,
        !.i = 0])

\* lines 180-186: the sample is counted, the loop starts after it
AfterSample(rn) ==
    LoopNext([rn EXCEPT
        !.total_inserted = rn.total_inserted + rn.chunk_inserted,
        !.total_updated = rn.total_updated + rn.chunk_updated,
        !.start_index = SAMPLE_SIZE,
        !.i = SAMPLE_SIZE])

\* release_dates = set(r.get('release_date') for r in records if ...)
ReleaseDates(records) ==
    {records[j].release_date :
        j \in {n \in 1..Len(records) : Truthy(records[n].release_date)}}

\* return chunk_inserted, chunk_updated, and what the caller does with them
\* (lines 153-159 for the sample, lines 202-204 for a chunk of the loop)
ChunkReturn(rn) ==
    IF rn.in_sample
    THEN IF rn.chunk_inserted = 0 /\ rn.chunk_updated > 0
              /\ ReleaseDates(rn.records) # {}
         THEN [rn EXCEPT !.pc = "count",
                         !.release_dates = ReleaseDates(rn.records),
                         !.total_existing = 0]
         ELSE AfterSample(rn)
    ELSE LoopNext([rn EXCEPT
            !.total_inserted = rn.total_inserted + rn.chunk_inserted,
            !.total_updated = rn.total_updated + rn.chunk_updated,
            !.i = rn.i + rn.chunk_size])

\* line 369: if records_to_update
AfterInserts(rn) ==
    IF rn.records_to_update # <<>>
    THEN [rn EXCEPT !.pc = "update", !.k = 1]
    ELSE ChunkReturn(rn)

\* lines 324-349: the partition and "if records_to_insert"
AfterQuery(rn, st, ids) ==
    LET ins == ToInsert(rn.chunk, st, ids)
        upd == ToUpdate(rn.chunk, st, ids)
        nx  == [rn EXCEPT !.ids = ids, !.records_to_insert = ins,
                          !.records_to_update = upd]
    IN  IF ins # <<>> THEN [nx EXCEPT !.pc = "insert"] ELSE AfterInserts(nx)

\* ----------------------------------------------------------------- inputs
\* Prepared records as a handler hands them to the engine: source stamped,
\* code non-empty, release_date set, geozip None.
Base(n, v) ==
    CASE n = 1 -> RecordOf("X", StrCode(1), "Jan 2025", Null, Null, "T", v)
      [] n = 2 -> RecordOf("X", StrCode(1), "Feb 2025", Null, Null, "T", v)
      [] n = 3 -> RecordOf("X", IntCode(1), "Jan 2025", Null, Null, "T", v)
      [] OTHER -> RecordOf("X", StrCode(2), "Jan 2025", Null, Null, "T", v)

BaseIds == 1..4
\* The values an extract carries: those of an earlier extract or new ones.
Versions(n) == 1..Min2(n + 1, 2)

\* Lists of distinct hand-picked records, in ascending or descending order.
Picks ==
    UNION {{p \in [1..n -> BaseIds] :
               \/ \A i, j \in 1..n : i < j => p[i] < p[j]
               \/ \A i, j \in 1..n : i < j => p[i] > p[j]}
           : n \in 0..MaxLen}

SmallBatches(n) ==
    {[i \in 1..Len(p) |-> Base(p[i], v)] : p \in Picks, v \in Versions(n)}

\* A bulk extract: SAMPLE_SIZE rows of one release, then hand-picked records.
Filler == [i \in 1..SAMPLE_SIZE |->
              RecordOf("X", StrCode(100 + i), "Jan 2025", Null, Null, "T", 0)]

BigTails == {<<1>>, <<4>>, <<1, 4>>, <<1, 2>>}

BigBatches == {Filler \o [i \in 1..Len(p) |-> Base(p[i], 1)] : p \in BigTails}

\* Batches of at most RaceLen records for two runs in progress at once.
RaceBatches == {b \in SmallBatches(0) : Len(b) <= RaceLen}

\* The chunk_size a worker calls the engine with: the default, or one so
\* small that a short batch spans several chunks.
ChunkSizes == {1, DEFAULT_CHUNK_SIZE}

\* Rows written by others: another source's row, and a row whose geozip is "".
SeedRows ==
    << [source |-> "Y", code |-> StrCode(1), release_date |-> "Jan 2025",
        geozip |-> Null, data_type |-> "T", val |-> 9],
       [source |-> "X", code |-> StrCode(2), release_date |-> "Jan 2025",
        geozip |-> "", data_type |-> "T", val |-> 9] >>

\* Raw extract rows as a data processor emits them; source is not stamped yet.
BlankCode == [t |-> "blank", v |-> 0]

RawKind(n, val) ==
    CASE n = 1 -> RecordOf(Null, StrCode(1), Null, "Feb 2025", Null, "T", val)
      [] n = 2 -> RecordOf(Null, StrCode(1), Null, "Feb 2025", "", "T", val)
      [] n = 3 -> RecordOf(Null, StrCode(1), Null, "Feb 2025", "070", "T", val)
      [] n = 4 -> RecordOf(Null, StrCode(1), Null, "Feb 2025", "070", "U", val)
      [] n = 5 -> RecordOf(Null, IntCode(1), Null, "Feb 2025", Null, "T", val)
      [] n = 6 -> RecordOf(Null, BlankCode, Null, "Feb 2025", Null, "T", val)
      [] n = 7 -> RecordOf(Null, StrCode(1), "Jan 2025", "Feb 2025", Null, "T", val)
      [] OTHER -> RecordOf(Null, StrCode(1), Null, Null, Null, "T", val)

RawKinds == 1..8

\* An extract: up to MaxExtract rows; a row's rate is its position.
Extracts ==
    UNION {{[i \in 1..n |-> RawKind(p[i], i)] : p \in [1..n -> RawKinds]}
           : n \in 0..MaxExtract}

\* Extracts whose records carry no release_date of their own: the record at
\* position i has code i and a rel_date label, or none.
Labels == {"Jan 2025", "Feb 2025", Null}

LabelledExtracts ==
    UNION {{[i \in 1..n |-> RecordOf(Null, StrCode(i), Null, l[i], Null, "T", i)]
            : l \in [1..n -> Labels]} : n \in 1..MaxLen}

\* The handlers whose runs are followed from an empty store: their data
\* processors take rel_date from a column of the file, row by row.
StickyHandlers ==
    {h \in Handlers :
        h.source_name \in {"Fair Health Facility", "Medicare Clinical Fees"}}

\* Rows of earlier runs of each source: one with geozip NULL, one with "".
PipeSeedOf(source_name) ==
    << [source |-> source_name, code |-> StrCode(1), release_date |-> "Jan 2025",
        geozip |-> Null, data_type |-> "T", val |-> 9],
       [source |-> source_name, code |-> StrCode(1), release_date |-> "Jan 2025",
        geozip |-> "", data_type |-> "T", val |-> 9] >>

PipeSeed ==
    PipeSeedOf("Fair Health Facility") \o PipeSeedOf("Fair Health Physicians")
    \o PipeSeedOf("Medicare Clinical Fees") \o PipeSeedOf("Novitas")
    \o PipeSeedOf("Horizon_ASC") \o PipeSeedOf("New Jersey DOBI")

\* Rows of every source whose release_date is the empty string.
EmptyDateSeed == [i \in 1..Len(PipeSeed) |-> [PipeSeed[i] EXCEPT !.release_date = ""]]

NoPipe ==
    [pc |-> "idle", handler |-> CHOOSE h \in Handlers : TRUE, input |-> <<>>,
     existing_release_date |-> Null, validated_records |-> <<>>, n |-> 0,
     dedup |-> NoDedup, status |-> "none",
     \* bookkeeping read by the properties only
     lookup_failed |-> FALSE, looked_up |-> {}]

\* ---------------------------------------------------------------- actions
Summary(rn, st) ==
    [source |-> rn.source_name, records |-> rn.records, rows0 |-> rn.rows0,
     rows1 |-> Len(st), faulted |-> rn.faulted, status |-> rn.result.status]

Commit(r, rn, st) ==
    /\ run' = [run EXCEPT ![r] = rn]
    /\ store' = st
    /\ last' = IF rn.pc = "done" THEN Summary(rn, st) ELSE last

\* A storage call either answers or raises; budget bounds the raises.
Raise(ok) ==
    /\ ok \/ budget > 0
    /\ budget' = IF ok THEN budget ELSE budget - 1

\* upsert_records_with_composite_key(client, table, source_name, records, chunk_size)
Reconcile(r, source_name, records, chunk_size) ==
    /\ run[r].pc \in {"idle", "done"}
    /\ started < MaxRuns
    /\ started' = started + 1
    /\ LET rn == [Idle EXCEPT !.source_name = source_name,
                              !.records = records,
                              !.chunk_size = chunk_size,
                              !.rows0 = Len(store), !.prev = last,
                              !.store0 = store]
       IN  Commit(r,
              IF records = <<>>
              THEN [Returned(rn) EXCEPT
                              !.result = [NoResult EXCEPT !.status = "no_records"]]
              ELSE IF Len(records) > SAMPLE_SIZE
                   THEN EnterChunk(rn, SubSeq(records, 1, SAMPLE_SIZE), 0, TRUE)
                   ELSE LoopNext(rn),
              store)
    /\ UNCHANGED budget

\* lines 298-322: the existence query of a chunk, then the partition
ExistenceQuery(r) ==
    /\ run[r].pc = "query"
    /\ LET rn == run[r]
           codes == CodesInChunk(rn.chunk)
           rd == rn.chunk[1].release_date
       IN  IF codes # {} /\ Truthy(rd)
           THEN \E ok \in BOOLEAN :
                  /\ Raise(ok)
                  /\ IF ok
                     THEN Commit(r, AfterQuery(rn, store,
                                   QueryExisting(store, rn.source_name, rd, codes)),
                                 store)
                     ELSE Commit(r, AfterQuery(
                                   [rn EXCEPT !.faulted = TRUE,
                                      !.raised_in = @ \cup {rn.chunk_num},
                                      !.query_failed = @ \cup {rn.chunk_num}],
                                   store, {}),
                                 store)
           ELSE /\ Commit(r, AfterQuery(rn, store, {}), store)
                /\ UNCHANGED budget
    /\ UNCHANGED <<started, pipe, jobs, cron>>

\* What the storage client raises: the table's unique-constraint violation
\* (HTTP 409, "duplicate key value violates unique constraint") or anything else.
DuplicateKeyError == "409 duplicate key"
OtherError == "connection error"

\* A fallback that takes no error for a uniqueness violation.
NeverConflictError(err) == FALSE

\* line 363: '409' in error_str or 'duplicate key' in ... or 'unique constraint' in ...
IsConflictError(err) == err = DuplicateKeyError

\* lines 349-354: the bulk insert of records_to_insert
BatchInsert(r) ==
    /\ run[r].pc = "insert"
    /\ \E ok \in BOOLEAN :
        /\ Raise(ok)
        /\ LET rn == run[r]
               recs == rn.records_to_insert
               rejected == SelfConflicts(recs)
                           \/ \E i \in 1..Len(recs) : Conflicts(store, recs[i])
           IN  IF ok /\ ~rejected
               THEN Commit(r,
                      AfterInserts([rn EXCEPT !.chunk_inserted = Len(recs)]),
                      InsertAll(store, recs))
               ELSE Commit(r,
                      [rn EXCEPT !.pc = "single", !.k = 1,
                                 !.all_raised = TRUE,
                                 !.raised_in = IF ok THEN @ ELSE @ \cup {rn.chunk_num},
                                 !.faulted = @ \/ ~ok],
                      store)
    /\ UNCHANGED <<started, pipe, jobs, cron>>

\* lines 349-354 against a table that has no unique constraint: the bulk
\* insert is accepted whatever the table holds
BatchInsertUnconstrained(r) ==
    /\ run[r].pc = "insert"
    /\ \E ok \in BOOLEAN :
        /\ Raise(ok)
        /\ LET rn == run[r]
               recs == rn.records_to_insert
           IN  IF ok
               THEN Commit(r,
                      AfterInserts([rn EXCEPT !.chunk_inserted = Len(recs)]),
                      InsertAll(store, recs))
               ELSE Commit(r,
                      [rn EXCEPT !.pc = "single", !.k = 1,
                                 !.all_raised = TRUE,
                                 !.raised_in = @ \cup {rn.chunk_num},
                                 !.faulted = TRUE],
                      store)
    /\ UNCHANGED <<started, pipe, jobs, cron>>

\* lines 356-366: the fallback, one insert per record
SingleInsert(r) ==
    /\ run[r].pc = "single"
    /\ \E ok \in BOOLEAN :
        /\ Raise(ok)
        /\ LET rn == run[r]
               rec == rn.records_to_insert[rn.k]
               err == IF ~ok THEN OtherError
                      ELSE IF Conflicts(store, rec) THEN DuplicateKeyError
                      ELSE "none"
               n1 == IF err = "none"
                     THEN [rn EXCEPT !.chunk_inserted = @ + 1,
                                     !.all_raised = FALSE]
                     ELSE IF IsConflictError(err)
                     THEN [rn EXCEPT !.chunk_updated = @ + 1,
                                     !.counted_updated = @ \cup {rec},
                                     !.rejected = IF err = DuplicateKeyError THEN @ \cup {rec} ELSE @,
                                     !.all_raised = @ /\ (err = OtherError)]
                     ELSE [rn EXCEPT !.faulted = @ \/ (err = OtherError),
                                     !.raised_in = IF err = OtherError
                                                   THEN @ \cup {rn.chunk_num} ELSE @,
                                     !.rejected = IF err = DuplicateKeyError THEN @ \cup {rec} ELSE @,
                                     !.all_raised = @ /\ (err = OtherError)]
               n2 == IF rn.k < Len(rn.records_to_insert)
                     THEN [n1 EXCEPT !.k = rn.k + 1]
                     ELSE AfterInserts(
                            [n1 EXCEPT !.write_failed =
                               IF n1.all_raised THEN @ \cup {rn.chunk_num} ELSE @])
           IN  Commit(r, n2, IF err = "none" THEN Append(store, RowOf(rec))
                                             ELSE store)
    /\ UNCHANGED <<started, pipe, jobs, cron>>

\* lines 229-231: what is not caught inside is logged and raised to the caller
Propagated(rn) == [Returned(rn) EXCEPT !.pc = "raised"]

\* A failed update that is not caught in the loop.
UpdateErrorEscapes(rn) == Propagated(rn)

\* A failed update that marks its chunk as failed.
UpdateFailedMarksChunk(rn) ==
    [rn EXCEPT !.faulted = TRUE, !.raised_in = @ \cup {rn.chunk_num},
               !.failed_chunks = Append(@, rn.chunk_num),
               !.total_failed = @ + Len(rn.chunk)]

\* lines 378-379: a failed update is logged, the loop goes on
UpdateFailed(rn) ==
    [rn EXCEPT !.faulted = TRUE, !.raised_in = @ \cup {rn.chunk_num}]

\* lines 369-379: one update per record of records_to_update, by row id
UpdateRecord(r) ==
    /\ run[r].pc = "update"
    /\ \E ok \in BOOLEAN :
        /\ Raise(ok)
        /\ LET rn == run[r]
               item == rn.records_to_update[rn.k]
               n1 == IF ok
                     THEN [rn EXCEPT !.chunk_updated = @ + 1,
                                     !.counted_updated = @ \cup {item.rec}]
                     ELSE UpdateFailed(rn)
               n2 == IF n1.pc = "raised" THEN n1
                     ELSE IF rn.k < Len(rn.records_to_update)
                     THEN [n1 EXCEPT !.k = rn.k + 1]
                     ELSE ChunkReturn(n1)
           IN  Commit(r, n2, IF ok THEN UpdateRow(store, item.id, item.rec)
                                   ELSE store)
    /\ UNCHANGED <<started, pipe, jobs, cron>>

\* A failed count check that is taken for "everything is there".
CountFailedAsSynced(rn) == AlreadySynced(rn)

\* lines 274-276: a count query that raises makes the check return False,
\* and the caller goes on with the records after the sample
CountFailed(rn) == AfterSample([rn EXCEPT !.faulted = TRUE, !.count_failed = TRUE])

\* An early exit decided by the sample alone.
SampleAlone(total_existing, records) == TRUE

\* line 268: if total_existing >= len(records)
AllExist(total_existing, records) == total_existing >= Len(records)

\* _check_all_records_exist, lines 247-276: one count query per release_date
CountQuery(r) ==
    /\ run[r].pc = "count"
    /\ \E rd \in run[r].release_dates, ok \in BOOLEAN :
        /\ Raise(ok)
        /\ LET rn == run[r]
               total == rn.total_existing + CountRows(store, rn.source_name, rd)
               rest == rn.release_dates \ {rd}
           IN  Commit(r,
                 IF ~ok THEN CountFailed(rn)
                 ELSE IF rest # {}
                      THEN [rn EXCEPT !.release_dates = rest,
                                      !.total_existing = total]
                      ELSE IF AllExist(total, rn.records)
                           THEN AlreadySynced([rn EXCEPT !.release_dates = rest,
                                                  !.total_existing = total])
                           ELSE AfterSample([rn EXCEPT !.release_dates = rest,
                                                !.total_existing = total]),
                 store)
    /\ UNCHANGED <<started, pipe, jobs, cron>>

\* ---------------------------------------------------------- specifications
\* Workers that have not called the engine yet.
Workers(chunk_size) == [r \in Runs |-> [Idle EXCEPT !.chunk_size = chunk_size]]

\* No job requested yet.
JobIds == 1..MaxJobs

NoJob == [status |-> "none", container |-> "none", task |-> "none"]

\* The scheduler before the cron trigger fires. job_ids is the list of the
\* jobs created and approved, k the position of the execution loop in it,
\* proc the subprocess of the job being executed.
NoCron == [pc |-> "idle", n |-> 0, job_ids |-> <<>>, k |-> 0, proc |-> "none",
           completed |-> 0, failed |-> 0]

InitCommon ==
    /\ last = NoRun
    /\ pipe = NoPipe
    /\ jobs = [j \in JobIds |-> NoJob]
    /\ cron = NoCron

\* One pipeline run of a source handler on a raw extract; storage answers.
InitPipe ==
    /\ InitCommon
    /\ run = Workers(DEFAULT_CHUNK_SIZE)
    /\ store \in {<<>>, PipeSeed}
    /\ budget = 0 /\ started = MaxRuns - 1

\* One pipeline run against a store that holds rows of every source, with a
\* release_date or with an empty one; storage may raise.
InitLookup ==
    /\ InitCommon
    /\ run = Workers(DEFAULT_CHUNK_SIZE)
    /\ store \in {<<>>, PipeSeed, EmptyDateSeed}
    /\ budget = LookupFaults /\ started = MaxRuns - 1

\* Pipeline runs of one source one after the other, from an empty store;
\* storage answers.
InitSticky ==
    /\ InitCommon
    /\ run = Workers(DEFAULT_CHUNK_SIZE)
    /\ store = <<>>
    /\ budget = 0 /\ started = 0

\* The job service with no job requested; no pipeline runs.
InitJobs ==
    /\ InitCommon
    /\ run = Workers(DEFAULT_CHUNK_SIZE)
    /\ store = <<>>
    /\ budget = 0 /\ started = 0

\* One run on a bulk extract against a store that holds none of its rows,
\* the rows of the sample, or those and one more with the rate of an earlier
\* extract; the chunk size is 2 or the default; storage may raise.
InitGate ==
    /\ InitCommon
    /\ \E chunk_size \in {2, DEFAULT_CHUNK_SIZE} : run = Workers(chunk_size)
    /\ store \in {<<>>, InsertAll(<<>>, Filler),
                  InsertAll(<<>>, Filler \o <<Base(1, 2)>>)}
    /\ budget = LookupFaults /\ started = MaxRuns - 1

\* Runs one after the other, as a job runner executes them; storage answers.
Init ==
    /\ InitCommon
    /\ \E chunk_size \in ChunkSizes : run = Workers(chunk_size)
    /\ store \in {<<>>, SeedRows}
    /\ budget = 0 /\ started = 0

\* One run against a store that earlier runs have filled; storage may raise.
InitFault ==
    /\ InitCommon
    /\ \E chunk_size \in ChunkSizes : run = Workers(chunk_size)
    /\ store \in {<<>>, InsertAll(SeedRows, <<Base(1, 1), Base(4, 1)>>),
                  InsertAll(<<>>, Filler \o <<Base(1, 1)>>)}
    /\ budget = MaxFaults /\ started = MaxRuns - 1

\* Runs in progress at once on short batches, against a store that holds the
\* rows of others; storage answers.
InitRace ==
    /\ InitCommon
    /\ run = Workers(DEFAULT_CHUNK_SIZE)
    /\ store = SeedRows
    /\ budget = 0 /\ started = 0

\* A worker calls the engine; one worker runs its calls one after the other.
Start ==
    /\ run["a"].pc \in {"idle", "done"}
    /\ started < MaxRuns
    /\ \E records \in SmallBatches(started) \cup BigBatches :
         Reconcile("a", "X", records, run["a"].chunk_size)
    /\ UNCHANGED <<pipe, jobs, cron>>

\* A worker calls the engine while storage may raise: the short batches, and
\* one bulk extract.
StartFault ==
    /\ run["a"].pc \in {"idle", "done"}
    /\ started < MaxRuns
    /\ \E records \in SmallBatches(started) \cup {Filler \o <<Base(1, 1)>>} :
         Reconcile("a", "X", records, run["a"].chunk_size)
    /\ UNCHANGED <<pipe, jobs, cron>>

\* Two workers (two approved jobs) call the engine without waiting for each other.
StartRace ==
    /\ started < MaxRuns
    /\ \E r \in {q \in Runs : run[q].pc \in {"idle", "done"}} :
         \E records \in RaceBatches :
           Reconcile(r, "X", records, DEFAULT_CHUNK_SIZE)
    /\ UNCHANGED <<pipe, jobs, cron>>

\* insert_records up to the dedup loop: the empty-input return, the lookup of
\* the existing release_date, and _validate_and_prepare_records
InsertRecords(h, records) ==
    /\ pipe.pc = "idle" \/ (pipe.pc = "returned" /\ pipe.status = "upserted")
    /\ run["a"].pc \in {"idle", "done"}
    /\ started < MaxRuns
    /\ \E failed \in {FALSE} \cup {budget > 0} :
         \E lookup \in
               IF failed THEN {LookupFailed}
               ELSE {[raised |-> FALSE, value |-> d]
                     : d \in ExistingReleaseDates(store, h.source_name)} :
           LET existing_release_date == lookup.value
               validated == ValidateAndPrepare(h, records, existing_release_date)
               p == [NoPipe EXCEPT !.handler = h, !.input = records,
                        !.existing_release_date = existing_release_date,
                        !.validated_records = validated,
                        !.lookup_failed = failed,
                        !.looked_up = {store[i].release_date
                                       : i \in {k \in 1..Len(store)
                                                : store[k].source = h.source_name}}]
           IN  /\ pipe' = IF records = <<>>
                          THEN [NoPipe EXCEPT !.handler = h, !.pc = "returned",
                                              !.status = "no_records"]
                          ELSE IF lookup.raised
                          THEN [p EXCEPT !.pc = "raised"]
                          ELSE IF validated = <<>>
                          THEN [p EXCEPT !.pc = "returned",
                                         !.status = "no_valid_records"]
                          ELSE [p EXCEPT !.pc = "dedup", !.n = 1]
               /\ budget' = IF failed /\ records # <<>> THEN budget - 1 ELSE budget
    /\ UNCHANGED <<store, run, started, last, jobs, cron>>

\* One iteration of the dedup loop of insert_records.
DedupStep ==
    /\ pipe.pc = "dedup"
    /\ LET record == pipe.validated_records[pipe.n]
           d == DedupOne(pipe.dedup, DedupKey(pipe.handler, record), record)
       IN  pipe' = [pipe EXCEPT !.dedup = d,
                       !.n = @ + 1,
                       !.pc = IF pipe.n < Len(pipe.validated_records)
                              THEN "dedup" ELSE "upsert"]
    /\ UNCHANGED <<store, run, budget, started, last, jobs, cron>>

\* The call of upsert_records_with_composite_key(..., chunk_size=1000); its
\* result is what insert_records returns.
Upsert ==
    /\ pipe.pc = "upsert"
    /\ Reconcile("a", pipe.handler.source_name,
                 pipe.dedup.deduplicated_records, DEFAULT_CHUNK_SIZE)
    /\ pipe' = [pipe EXCEPT !.pc = "returned", !.status = "upserted"]
    /\ UNCHANGED <<jobs, cron>>

StartPipe ==
    /\ pipe.pc = "idle" \/ (pipe.pc = "returned" /\ pipe.status = "upserted")
    /\ run["a"].pc \in {"idle", "done"}
    /\ started < MaxRuns
    /\ \E h \in Handlers, records \in Extracts : InsertRecords(h, records)

\* The next scheduled run of the same source on a fresh extract.
StartSticky ==
    /\ pipe.pc = "idle" \/ (pipe.pc = "returned" /\ pipe.status = "upserted")
    /\ run["a"].pc \in {"idle", "done"}
    /\ started < MaxRuns
    /\ \E h \in {g \in StickyHandlers : pipe.pc = "idle" \/ g = pipe.handler} :
         \E records \in LabelledExtracts : InsertRecords(h, records)

\* ----------------------------------------------------- the job lifecycle
\* The route handlers are coroutines without an await between their storage
\* calls, so each runs as one step of the event loop; the background task
\* yields where it awaits the container.

\* update_job_status(job_id, COMPLETED | FAILED): an update by job_id alone,
\* whatever the status of the job is by then.
Outcome(job, outcome) == outcome

\* POST /request: create_job with status pending
RequestScrape(j) ==
    /\ jobs[j].status = "none"
    /\ jobs' = [jobs EXCEPT ![j].status = "pending"]
    /\ UNCHANGED <<store, run, budget, started, last, pipe, cron>>

\* POST /approve/{job_id}: a job that is pending is approved and its
\* execution queued as a background task; any other gets HTTP 400.
ApproveJob(j) ==
    /\ jobs[j].status = "pending"
    /\ jobs' = [jobs EXCEPT ![j].status = "approved", ![j].task = "queued"]
    /\ UNCHANGED <<store, run, budget, started, last, pipe, cron>>

\* POST /dismiss/{job_id}: a running job has its container stopped, its
\* status set to cancelled and the container removed; a pending job is set
\* to cancelled; for any other status cancel_job raises and nothing changes.
DismissJob(j) ==
    /\ jobs[j].status \in {"pending", "running"}
    /\ jobs' = IF jobs[j].status = "running"
               THEN [jobs EXCEPT ![j].status = "cancelled",
                                 ![j].container = "removed"]
               ELSE [jobs EXCEPT ![j].status = "cancelled"]
    /\ UNCHANGED <<store, run, budget, started, last, pipe, cron>>

\* _execute_docker up to its await: the container is created and the job set
\* to running, or create_and_run_container raises and the job is set to failed.
ExecuteStart(j) ==
    /\ jobs[j].task = "queued"
    /\ \E created \in BOOLEAN :
         jobs' = IF created
                 THEN [jobs EXCEPT ![j].status = "running",
                                   ![j].container = "up", ![j].task = "waiting"]
                 ELSE [jobs EXCEPT ![j].status = "failed", ![j].task = "done"]
    /\ UNCHANGED <<store, run, budget, started, last, pipe, cron>>

\* The scraper in the container ends, with exit code 0 or another.
ContainerExits(j) ==
    /\ jobs[j].container = "up"
    /\ \E code \in {"exit0", "exit1"} :
         jobs' = [jobs EXCEPT ![j].container = code]
    /\ UNCHANGED <<store, run, budget, started, last, pipe, cron>>

\* wait_for_container has returned, or raised because the container is
\* gone: exit code 0 sets the job to completed, anything else to failed.
ExecuteFinish(j) ==
    /\ jobs[j].task = "waiting"
    /\ jobs[j].container \in {"exit0", "exit1", "removed"}
    /\ jobs' = [jobs EXCEPT
                  ![j].status = Outcome(jobs[j],
                                    IF jobs[j].container = "exit0"
                                    THEN "completed" ELSE "failed"),
                  ![j].task = IF jobs[j].container = "removed"
                              THEN "done" ELSE "sleeping"]
    /\ UNCHANGED <<store, run, budget, started, last, pipe, cron>>

\* The wait for the container raises (the timeout, a Docker error): the
\* container is removed and the job set to failed.
ExecuteTimeout(j) ==
    /\ jobs[j].task = "waiting"
    /\ jobs[j].container = "up"
    /\ jobs' = [jobs EXCEPT ![j].status = Outcome(jobs[j], "failed"),
                            ![j].container = "removed", ![j].task = "done"]
    /\ UNCHANGED <<store, run, budget, started, last, pipe, cron>>

\* After its sleep the task removes the container.
ExecuteCleanup(j) ==
    /\ jobs[j].task = "sleeping"
    /\ jobs' = [jobs EXCEPT ![j].container = "removed", ![j].task = "done"]
    /\ UNCHANGED <<store, run, budget, started, last, pipe, cron>>

NextJobs ==
    \E j \in JobIds :
        \/ RequestScrape(j)
        \/ ApproveJob(j)
        \/ DismissJob(j)
        \/ ExecuteStart(j)
        \/ ContainerExits(j)
        \/ ExecuteFinish(j)
        \/ ExecuteTimeout(j)
        \/ ExecuteCleanup(j)

\* A worker calls the engine on an extract longer than the sample, or on
\* one exactly as long.
StartGate ==
    /\ run["a"].pc \in {"idle", "done"}
    /\ started < MaxRuns
    /\ \E records \in {Filler, Filler \o <<Base(1, 1)>>,
                        Filler \o <<Base(1, 1), Base(4, 1)>>,
                        Filler \o <<Base(1, 1), Base(4, 1), Base(2, 1)>>} :
         Reconcile("a", "X", records, run["a"].chunk_size)
    /\ UNCHANGED <<pipe, jobs, cron>>

NextGate ==
    \/ StartGate
    \/ ExistenceQuery("a")
    \/ BatchInsert("a")
    \/ SingleInsert("a")
    \/ UpdateRecord("a")
    \/ CountQuery("a")

\* The cron trigger calls execute_all_scrapers (scheduler.py lines 35-46).
CronTriggered ==
    /\ cron.pc = "idle"
    /\ cron' = [cron EXCEPT !.pc = "creating", !.n = 1]
    /\ UNCHANGED <<store, run, budget, started, last, pipe, jobs>>

\* lines 82, 104-112: the next job of job_ids, or the summary after the last
NextJob(c, success) ==
    LET counted == IF success THEN [c EXCEPT !.completed = @ + 1]
                   ELSE [c EXCEPT !.failed = @ + 1]
    IN  IF c.k < Len(c.job_ids)
        THEN [counted EXCEPT !.k = @ + 1, !.proc = "none"]
        ELSE [counted EXCEPT !.pc = "done", !.proc = "none"]

\* lines 49-73: one iteration of the creation loop. create_job or approve_job
\* may raise; the job is then left out of job_ids.
CreateAndApprove ==
    /\ cron.pc = "creating"
    /\ \E outcome \in {"approved", "create_raised", "approve_raised"} :
         /\ Raise(outcome = "approved")
         /\ jobs' = [jobs EXCEPT ![cron.n].status =
                        CASE outcome = "approved" -> "approved"
                          [] outcome = "approve_raised" -> "pending"
                          [] OTHER -> @]
         /\ LET ids == IF outcome = "approved"
                       THEN Append(cron.job_ids, cron.n) ELSE cron.job_ids
            IN  cron' = IF cron.n < MaxJobs
                        THEN [cron EXCEPT !.n = @ + 1, !.job_ids = ids]
                        ELSE IF ids = <<>>
                        THEN [cron EXCEPT !.pc = "done", !.job_ids = ids]
                        ELSE [cron EXCEPT !.pc = "executing", !.k = 1,
                                          !.job_ids = ids]
    /\ UNCHANGED <<store, run, started, last, pipe>>

\* The handler of lines 158-170 (and of 145-156 for the timeout): failed is
\* written and False returned; when the write raises, the exception leaves
\* execute_scraper_job, the scheduler logs it (lines 99-102) and the job
\* keeps the status it has. Either way the scheduler goes on.
HandlerWrites(j, failed_ok) ==
    /\ Raise(failed_ok)
    /\ jobs' = IF failed_ok THEN [jobs EXCEPT ![j].status = "failed"] ELSE jobs
    /\ cron' = NextJob(cron, FALSE)

\* _execute_local lines 76-84: the job is set to running; a write that
\* raises leads to the handler.
ExecuteLocalStart ==
    /\ cron.pc = "executing" /\ cron.proc = "none"
    /\ LET j == cron.job_ids[cron.k]
       IN  \/ /\ jobs' = [jobs EXCEPT ![j].status = "running"]
              /\ cron' = [cron EXCEPT !.proc = "spawning"]
              /\ UNCHANGED budget
           \/ /\ budget > 0
              /\ \E failed_ok \in BOOLEAN :
                   /\ ~failed_ok => budget > 1
                   /\ budget' = budget - (IF failed_ok THEN 1 ELSE 2)
                   /\ jobs' = IF failed_ok
                              THEN [jobs EXCEPT ![j].status = "failed"] ELSE jobs
                   /\ cron' = NextJob(cron, FALSE)
    /\ UNCHANGED <<store, run, started, last, pipe>>

\* lines 92-97: await create_subprocess_exec returns the process, or raises
SubprocessSpawned ==
    /\ cron.pc = "executing" /\ cron.proc = "spawning"
    /\ \/ /\ cron' = [cron EXCEPT !.proc = "running"]
          /\ UNCHANGED <<jobs, budget>>
       \/ \E failed_ok \in BOOLEAN :
             HandlerWrites(cron.job_ids[cron.k], failed_ok)
    /\ UNCHANGED <<store, run, started, last, pipe>>

\* lines 101-143: the subprocess has exited; completed is written for exit
\* code 0 and failed for any other. A write that raises leads to the handler.
SubprocessExits ==
    /\ cron.pc = "executing" /\ cron.proc = "running"
    /\ \E code \in {"zero", "nonzero"}, first_ok, failed_ok \in BOOLEAN :
         LET j == cron.job_ids[cron.k]
             raises == IF first_ok THEN 0 ELSE IF failed_ok THEN 1 ELSE 2
         IN  /\ first_ok => failed_ok
             /\ budget >= raises
             /\ budget' = budget - raises
             /\ jobs' = IF first_ok
                        THEN [jobs EXCEPT ![j].status =
                                 IF code = "zero" THEN "completed" ELSE "failed"]
                        ELSE IF failed_ok
                        THEN [jobs EXCEPT ![j].status = "failed"]
                        ELSE jobs
             /\ cron' = NextJob(cron, code = "zero" /\ first_ok)
    /\ UNCHANGED <<store, run, started, last, pipe>>

\* lines 106-108: the wait reaches JOB_TIMEOUT_SECONDS, the process is killed
WaitTimesOut ==
    /\ cron.pc = "executing" /\ cron.proc = "running"
    /\ cron' = [cron EXCEPT !.proc = "killed"]
    /\ UNCHANGED <<store, run, budget, started, last, pipe, jobs>>

\* lines 109, 145-156: the killed process is reaped and the timeout handled
TimeoutHandled ==
    /\ cron.pc = "executing" /\ cron.proc = "killed"
    /\ \E failed_ok \in BOOLEAN :
          HandlerWrites(cron.job_ids[cron.k], failed_ok)
    /\ UNCHANGED <<store, run, started, last, pipe>>

NextCron ==
    \/ CronTriggered
    \/ CreateAndApprove
    \/ ExecuteLocalStart
    \/ SubprocessSpawned
    \/ SubprocessExits
    \/ WaitTimesOut
    \/ TimeoutHandled

Next ==
    \/ Start
    \/ \E r \in Runs :
        \/ ExistenceQuery(r)
        \/ BatchInsert(r)
        \/ SingleInsert(r)
        \/ UpdateRecord(r)
        \/ CountQuery(r)

NextFault ==
    \/ StartFault
    \/ \E r \in Runs :
        \/ ExistenceQuery(r)
        \/ BatchInsert(r)
        \/ SingleInsert(r)
        \/ UpdateRecord(r)
        \/ CountQuery(r)

NextRace ==
    \/ StartRace
    \/ \E r \in Runs :
        \/ ExistenceQuery(r)
        \/ BatchInsert(r)
        \/ SingleInsert(r)
        \/ UpdateRecord(r)

NextPipe ==
    \/ StartPipe
    \/ DedupStep
    \/ Upsert
    \/ ExistenceQuery("a")
    \/ BatchInsert("a")
    \/ SingleInsert("a")
    \/ UpdateRecord("a")

Spec == Init /\ [][Next]_vars

SpecFault == InitFault /\ [][NextFault]_vars

SpecRace == InitRace /\ [][NextRace]_vars

NextSticky ==
    \/ StartSticky
    \/ DedupStep
    \/ Upsert
    \/ ExistenceQuery("a")
    \/ BatchInsert("a")
    \/ UpdateRecord("a")

SpecPipe == InitPipe /\ [][NextPipe]_vars

\* The cron batch with storage that may raise. The event loop runs the
\* coroutine whenever it can go on, and the wait for a subprocess ends at
\* its exit or at JOB_TIMEOUT_SECONDS.
InitCron ==
    /\ InitCommon
    /\ run = Workers(DEFAULT_CHUNK_SIZE)
    /\ store = <<>>
    /\ budget = MaxFaults /\ started = 0

SpecCron == InitCron /\ [][NextCron]_vars /\ WF_vars(NextCron)

\* Pipeline runs of one source one after the other, from an empty table that
\* has no unique constraint; storage answers.
StartUnconstrained ==
    /\ pipe.pc = "idle" \/ (pipe.pc = "returned" /\ pipe.status = "upserted")
    /\ run["a"].pc \in {"idle", "done"}
    /\ started < MaxRuns
    /\ \E h \in {g \in StickyHandlers : pipe.pc = "idle" \/ g = pipe.handler} :
         \E records \in {e \in Extracts : Len(e) <= MaxLen} :
            InsertRecords(h, records)

NextUnconstrained ==
    \/ StartUnconstrained
    \/ DedupStep
    \/ Upsert
    \/ ExistenceQuery("a")
    \/ BatchInsertUnconstrained("a")
    \/ UpdateRecord("a")

SpecUnconstrained == InitSticky /\ [][NextUnconstrained]_vars

SpecGate == InitGate /\ [][NextGate]_vars

SpecJobs == InitJobs /\ [][NextJobs]_vars

SpecSticky == InitSticky /\ [][NextSticky]_vars

SpecLookup == InitLookup /\ [][NextPipe]_vars

\* ------------------------------------------------------------- properties
\* The composite identity key as the specification writes it.
ClaimKey(rec) == <<rec.source, rec.code, rec.release_date, rec.geozip>>

Deduplicated(records) ==
    \A i, j \in 1..Len(records) :
        i # j => ClaimKey(records[i]) # ClaimKey(records[j])

\* The stored rows that carry the composite key of a record.
RowsOf(st, rec) == {i \in 1..Len(st) : ExistingKey(st[i]) = RecordKey(rec)}

Finished(r) == run[r].pc = "done" /\ run[r].result.status # "no_records"

RangeOf(seq) == {seq[i] : i \in 1..Len(seq)}

\* The second of two runs with the same deduplicated batch, the first of
\* which started on an empty store.
SecondOfTwo ==
    /\ run["a"].pc = "done"
    /\ run["a"].prev.status # "none"
    /\ run["a"].prev.rows0 = 0
    /\ run["a"].prev.source = run["a"].source_name
    /\ run["a"].prev.records = run["a"].records
    /\ Deduplicated(run["a"].records)

\* C1 (idempotence): when reconcile runs twice in sequence with the same
\* deduplicated batch, the first time on an empty store, with no storage
\* failure and no other writer, the second run reports records_inserted = 0
\* and either records_updated = len(records) or status already_synced, and
\* leaves the number of stored rows as the first run left it.
C1_Idempotence ==
    SecondOfTwo =>
        /\ run["a"].result.records_inserted = 0
        /\ \/ run["a"].result.records_updated = Len(run["a"].records)
           \/ run["a"].result.status = "already_synced"
        /\ Len(store) = run["a"].prev.rows1

\* A second run over a batch of two records with different release dates.
C1_Witness ==
    /\ SecondOfTwo
    /\ Len(run["a"].records) = 2
    /\ run["a"].records[1].release_date # run["a"].records[2].release_date
    /\ run["a"].result.records_updated = 2
    /\ Len(store) = 2

\* The dedup loop of a handler that keys on the composite key has finished.
DedupDone == pipe.pc = "upsert" /\ pipe.handler.dedup = "composite"

\* The positions of the input that carry the key of a record.
Carriers(input, rec) ==
    {j \in 1..Len(input) : ClaimKey(input[j]) = ClaimKey(rec)}

\* C2 (dedup correctness): for every list the dedup loop of insert_records
\* is given, its output holds exactly one record per distinct
\* (source, code, release_date, geozip) key of the input, and that record is
\* the last input record carrying the key.
C2_DedupCorrectness ==
    DedupDone =>
        LET input == pipe.validated_records
            output == pipe.dedup.deduplicated_records
        IN  /\ Deduplicated(output)
            /\ {ClaimKey(r) : r \in RangeOf(output)}
                   = {ClaimKey(r) : r \in RangeOf(input)}
            /\ \A i \in 1..Len(output) :
                   output[i] = input[Max(Carriers(input, output[i]))]
            /\ pipe.dedup.duplicates_removed = Len(input) - Len(output)

\* Three records in, two of one key with different rates, the later one kept.
C2_Witness ==
    /\ DedupDone
    /\ Len(pipe.validated_records) = 3
    /\ Len(pipe.dedup.deduplicated_records) = 2
    /\ ClaimKey(pipe.validated_records[1]) = ClaimKey(pipe.validated_records[3])
    /\ pipe.dedup.deduplicated_records[1] = pipe.validated_records[3]

RECURSIVE SumCount(_, _, _)
\* The rows of a source counted per release_date and summed.
SumCount(st, source_name, dates) ==
    IF dates = {} THEN 0
    ELSE LET d == CHOOSE x \in dates : TRUE
         IN  CountRows(st, source_name, d) + SumCount(st, source_name, dates \ {d})

EarlyExit == run["a"].pc = "done" /\ run["a"].result.status = "already_synced"

\* The records of the batch of run "a" that have no stored row.
Absent == {i \in 1..Len(run["a"].records) :
              RowsOf(store, run["a"].records[i]) = {}}

C4_PartialFailure ==
    \A c \in run["a"].write_failed :
        (run["a"].pc = "done" /\ c >= 1 /\ run["a"].raised_in = {c}) =>
            /\ run["a"].result.status = "partial_success"
            /\ c \in RangeOf(run["a"].result.failed_chunks)
            /\ run["a"].result.records_failed > 0

\* C5 (in-place update): whenever reconcile counts a record as updated, the
\* one stored row with the record's composite key holds the record's values
\* after the run, and no second row with that key exists.
C5_InPlaceUpdate ==
    run["a"].pc = "done" =>
        \A rec \in run["a"].counted_updated :
            /\ Cardinality(RowsOf(store, rec)) = 1
            /\ \A i \in RowsOf(store, rec) : store[i] = RowOf(rec)

\* No two stored rows carry the same composite key.
UniqueRows(st) ==
    \A i, j \in 1..Len(st) : i # j => ExistingKey(st[i]) # ExistingKey(st[j])

\* C6 (race safety of the insert fallback): when two runs handle the same new
\* key at once against a store that rejects duplicate composite keys, the
\* store holds exactly one row for the key, the run whose insert is rejected
\* counts the record as updated and not as failed, and no run reports a
\* failed chunk.
C6_RaceSafety ==
    /\ UniqueRows(store)
    /\ \A r \in Runs :
        Finished(r) =>
            /\ run[r].result.status = "success"
            /\ run[r].result.records_failed = 0
            /\ run[r].result.failed_chunks = <<>>
            /\ \A rec \in RangeOf(run[r].records) :
                   Cardinality(RowsOf(store, rec)) = 1
            /\ run[r].rejected \subseteq run[r].counted_updated
            /\ run[r].result.records_inserted + run[r].result.records_updated
                   = Len(run[r].records)

\* Two runs of the same record are over: one inserted it, the other's insert
\* was rejected and counted as an update.
C6_Witness ==
    \E r, q \in Runs :
        /\ r # q /\ Finished(r) /\ Finished(q)
        /\ run[r].records = run[q].records
        /\ run[r].result.records_inserted = 1 /\ run[r].rejected = {}
        /\ run[q].rejected = RangeOf(run[q].records)
        /\ run[q].result.records_updated = 1
        /\ run[q].result.records_inserted = 0

\* C7 (null-geozip isolation): in the existence check of reconcile and in the
\* dedup loop, a record whose geozip is null is matched only with a stored row
\* or a record whose geozip is null, never with one whose geozip is '' or a
\* region.
C7_NullGeozipIsolation ==
    /\ \A k \in 1..Len(run["a"].records_to_update) :
           LET item == run["a"].records_to_update[k]
           IN  item.rec.geozip = Null => store[item.id].geozip = Null
    /\ \A p \in pipe.dedup.replaced :
           (p[1].geozip = Null \/ p[2].geozip = Null) => p[1].geozip = p[2].geozip

\* A null-geozip record replaced another in the dedup loop and was matched to
\* a row while the query had also returned a row of its code with geozip ''.
C7_Witness ==
    /\ \E p \in pipe.dedup.replaced : p[2].geozip = Null
    /\ \E k \in 1..Len(run["a"].records_to_update) :
           LET item == run["a"].records_to_update[k]
           IN  /\ item.rec.geozip = Null
               /\ \E i \in run["a"].ids :
                      /\ store[i].geozip = ""
                      /\ store[i].code = PyStr(item.rec.code)

\* Two records of the batch that differ in release_date alone.
ReleasePairs(records) ==
    {p \in (1..Len(records)) \X (1..Len(records)) :
        /\ records[p[1]].source = records[p[2]].source
        /\ records[p[1]].code = records[p[2]].code
        /\ records[p[1]].geozip = records[p[2]].geozip
        /\ records[p[1]].release_date # records[p[2]].release_date}

BothStored(records) ==
    \A p \in ReleasePairs(records) :
        /\ Cardinality(RowsOf(store, records[p[1]])) = 1
        /\ Cardinality(RowsOf(store, records[p[2]])) = 1

C9_OnePerKey ==
    pipe.pc = "upsert" =>
        LET output == pipe.dedup.deduplicated_records
        IN  \A i, j \in 1..Len(output) :
                i # j => RecordKey(output[i]) # RecordKey(output[j])

\* C10 (chunk-level storage error): when the existence query of a chunk
\* fails, the chunk's number is in failed_chunks and its records are in
\* records_failed.
C10_QueryFailure ==
    \A c \in run["a"].query_failed :
        (run["a"].pc = "done" /\ c >= 1) =>
            /\ c \in RangeOf(run["a"].result.failed_chunks)
            /\ run["a"].result.records_failed > 0

\* The step in which the call of run "a" returns.
ReturnsNow ==
    /\ run'["a"].pc = "done"
    /\ run["a"].pc # "done" \/ started' # started

\* The status the result must carry, from how the call returned.
StatusOf(records, from_count, result) ==
    IF records = <<>> THEN "no_records"
    ELSE IF from_count THEN "already_synced"
    ELSE IF result.failed_chunks = <<>> /\ result.records_failed = 0
         THEN "success"
    ELSE "partial_success"

\* C11 (final status mapping): the status reconcile returns is no_records
\* iff the input list is empty; otherwise already_synced iff the call
\* returned from the count check of the early exit; otherwise success iff
\* failed_chunks is empty and records_failed = 0, and partial_success
\* otherwise.  No other status is returned.
C11_StatusMapping ==
    [][ReturnsNow =>
          /\ run'["a"].result.status
                 = StatusOf(run'["a"].records, run["a"].pc = "count",
                            run'["a"].result)
          /\ (run'["a"].result.failed_chunks = <<>>)
                 <=> (run'["a"].result.records_failed = 0)]_vars

\* An early exit and the result it returned, in a run where storage raised.
C11_Witness ==
    /\ run["a"].pc = "done"
    /\ run["a"].result.status = "already_synced"
    /\ run["a"].result.records_updated = SAMPLE_SIZE
    /\ Len(run["a"].records) > SAMPLE_SIZE

Statuses == {"no_records", "already_synced", "success", "partial_success"}

\* The result dict of lines 220-228: a status, four counts, the failed chunks.
Structured(result) ==
    /\ result.status \in Statuses
    /\ result.records_inserted \in Nat /\ result.records_updated \in Nat
    /\ result.records_failed \in Nat
    /\ result.records_upserted = result.records_inserted + result.records_updated
    /\ \A i \in DOMAIN result.failed_chunks : result.failed_chunks[i] \in Nat

\* The positions of a call in progress: each is the guard of one storage
\* call (ExistenceQuery, BatchInsert, SingleInsert, UpdateRecord, CountQuery).
InProgress == {"query", "insert", "single", "update", "count"}

\* C12 (structured result on partial failure): whichever storage calls of a
\* run raise (existence query, count query, batch insert, single insert,
\* update), reconcile raises nothing to its caller: the call goes on to its
\* return and returns a result with status, counts and failed_chunks.
C12_StructuredResult ==
    /\ run["a"].pc # "raised"
    /\ run["a"].pc = "done" => Structured(run["a"].result)
    /\ run["a"].pc \notin {"idle", "done"} => run["a"].pc \in InProgress

\* A run in which MaxFaults storage calls raised, an update among them, has
\* returned its result.
C12_Witness ==
    /\ run["a"].pc = "done"
    /\ run["a"].faulted /\ budget = 0
    /\ run["a"].result.records_updated
           < Cardinality({i \in 1..Len(run["a"].records) :
                             RowsOf(store, run["a"].records[i]) # {}})
    /\ run["a"].result.records_inserted = 0
    /\ Structured(run["a"].result)

\* The record a handler hands to the preparer: New Jersey DOBI fills a
\* missing rel_date first, the other handlers pass the extracted record.
Handed(h, rec, existing_release_date) ==
    IF h.fallback # Null /\ ~Truthy(rec.rel_date)
    THEN [rec EXCEPT !.rel_date = IF Truthy(existing_release_date)
                                  THEN existing_release_date ELSE h.fallback]
    ELSE rec

\* The release_date a record ends with: its own, else the one the store holds
\* for the source, else its rel_date, else none.
Resolution(rec, existing_release_date) ==
    IF Truthy(rec.release_date) THEN rec.release_date
    ELSE IF Truthy(existing_release_date) THEN existing_release_date
    ELSE IF Truthy(rec.rel_date) THEN rec.rel_date
    ELSE Null

\* The records of the extract that have a code and a resolvable release_date.
Passing(h, records, existing_release_date) ==
    LET Test(rec) ==
            /\ ~CodeMissing(rec.code)
            /\ Resolution(Handed(h, rec, existing_release_date),
                          existing_release_date) # Null
    IN  SelectSeq(records, Test)

\* C13 (release-date resolution in the preparer): a record that carries a
\* non-empty release_date keeps it; otherwise it takes the release_date the
\* store holds for the source, even when its rel_date differs; otherwise its
\* rel_date; otherwise it is rejected.  Every record the preparer returns has
\* a non-empty release_date.
C13_ReleaseDateResolution ==
    pipe.pc # "idle" =>
        LET e == pipe.existing_release_date
            passing == Passing(pipe.handler, pipe.input, e)
        IN  /\ Len(pipe.validated_records) = Len(passing)
            /\ \A i \in 1..Len(passing) :
                  /\ pipe.validated_records[i].release_date
                        = Resolution(Handed(pipe.handler, passing[i], e), e)
                  /\ Truthy(pipe.validated_records[i].release_date)

\* An extract of three records prepared while the store holds "Jan 2025" for
\* the source: one with its own release_date, one with a rel_date of another
\* month, one with neither.
C13_Witness ==
    /\ pipe.pc # "idle"
    /\ pipe.handler.fallback = Null
    /\ pipe.existing_release_date = "Jan 2025"
    /\ Len(pipe.input) = 3 /\ Len(pipe.validated_records) = 3
    /\ Truthy(pipe.input[1].release_date)
    /\ pipe.input[2].release_date = Null /\ pipe.input[2].rel_date = "Feb 2025"
    /\ pipe.validated_records[2].release_date = "Jan 2025"
    /\ pipe.input[3].release_date = Null /\ pipe.input[3].rel_date = Null

\* C15 (geozip normalisation): with has_geozip false the prepared record has
\* geozip null whatever the extract carried; with has_geozip true a missing
\* or falsy geozip becomes null and a non-empty geozip is left unchanged.
C15_GeozipNormalisation ==
    pipe.pc # "idle" =>
        LET passing == Passing(pipe.handler, pipe.input,
                               pipe.existing_release_date)
        IN  /\ Len(pipe.validated_records) = Len(passing)
            /\ \A i \in 1..Len(passing) :
                  pipe.validated_records[i].geozip
                      = IF ~pipe.handler.has_geozip THEN Null
                        ELSE IF passing[i].geozip \in {Null, ""} THEN Null
                        ELSE passing[i].geozip

\* A source without geozip prepared an extract that carried "070" and "".
C15_Witness ==
    /\ pipe.pc # "idle"
    /\ ~pipe.handler.has_geozip
    /\ Len(pipe.input) = 2 /\ Len(pipe.validated_records) = 2
    /\ pipe.input[1].geozip = "070" /\ pipe.input[2].geozip = ""
    /\ pipe.validated_records[1].geozip = Null

\* A record the preparer has to reject: no code, a blank code, or no
\* release_date to resolve to.
Skippable(h, rec, existing_release_date) ==
    \/ rec.code.t \in {"none", "blank"}
    \/ /\ ~Truthy(rec.release_date)
       /\ ~Truthy(existing_release_date)
       /\ ~Truthy(Handed(h, rec, existing_release_date).rel_date)

\* The positions of the extract whose records are not skippable, in order.
Proceeding(h, records, existing_release_date) ==
    LET Test(i) == ~Skippable(h, records[i], existing_release_date)
    IN  SelectSeq([i \in 1..Len(records) |-> i], Test)

\* C16 (skippable records): the preparer rejects exactly the records with a
\* missing or blank code or an unresolvable release_date; insert_records
\* drops them and passes every other record of the extract, in order, to
\* the dedup loop and from there to reconcile; no rejected record is ever
\* written to the store.
C16_SkippableRecords ==
    pipe.pc # "idle" =>
        LET h == pipe.handler
            going == Proceeding(h, pipe.input, pipe.existing_release_date)
        IN  /\ Len(pipe.validated_records) = Len(going)
            /\ \A i \in 1..Len(going) :
                  /\ pipe.validated_records[i].val = going[i]
                  /\ pipe.validated_records[i].code = pipe.input[going[i]].code
            /\ (going # <<>>) <=> (pipe.pc \in {"dedup", "upsert"}
                                    \/ pipe.status = "upserted")
            /\ pipe.status = "upserted" =>
                  /\ run["a"].records = pipe.dedup.deduplicated_records
                  /\ \A i \in 1..Len(going) :
                        \E j \in 1..Len(run["a"].records) :
                            DedupKey(h, run["a"].records[j])
                                = DedupKey(h, pipe.validated_records[i])
            /\ \A k \in 1..Len(store) :
                  store[k].val \in 1..Len(pipe.input) =>
                      ~Skippable(h, pipe.input[store[k].val],
                                 pipe.existing_release_date)

\* An extract whose first record has a blank code and whose third has no
\* date at all went through a run on an empty store: the second record is
\* the one row stored.
C16_Witness ==
    /\ pipe.pc = "returned" /\ pipe.status = "upserted"
    /\ run["a"].pc = "done"
    /\ pipe.handler.fallback = Null
    /\ pipe.existing_release_date = Null
    /\ Len(pipe.input) = 3
    /\ pipe.input[1].code.t = "blank"
    /\ ~Truthy(pipe.input[3].release_date) /\ ~Truthy(pipe.input[3].rel_date)
    /\ Len(pipe.validated_records) = 1
    /\ Len(store) = 1 /\ store[1].val = 2

\* C17 (lookup degradation): the lookup of the existing release_date raises
\* nothing into insert_records; when its query fails, finds no row of the
\* source or finds a row whose release_date is empty, it yields null, and
\* the run goes on: every record without a release_date of its own gets its
\* rel_date as release_date, and the records reach dedup and reconcile.
C17_LookupDegradation ==
    /\ pipe.pc # "raised"
    /\ (pipe.pc # "idle" /\ pipe.input # <<>>) =>
         /\ (pipe.lookup_failed \/ pipe.looked_up \subseteq {Null, ""})
                => pipe.existing_release_date = Null
         /\ pipe.existing_release_date = Null =>
               LET h == pipe.handler
                   going == Proceeding(h, pipe.input, Null)
               IN  /\ Len(pipe.validated_records) = Len(going)
                   /\ \A i \in 1..Len(going) :
                         LET rec == pipe.input[going[i]]
                         IN  pipe.validated_records[i].release_date
                               = IF Truthy(rec.release_date) THEN rec.release_date
                                 ELSE Handed(h, rec, Null).rel_date
                   /\ going # <<>> => \/ pipe.pc \in {"dedup", "upsert"}
                                      \/ pipe.status = "upserted"

\* The lookup failed while the store held "Jan 2025" rows of the source; the
\* run went through and stored the record under its own rel_date.
C17_Witness ==
    /\ pipe.pc = "returned" /\ pipe.status = "upserted"
    /\ run["a"].pc = "done"
    /\ pipe.lookup_failed
    /\ pipe.looked_up = {"Jan 2025"}
    /\ Len(pipe.input) = 1
    /\ ~Truthy(pipe.input[1].release_date)
    /\ pipe.input[1].rel_date = "Feb 2025"
    /\ \E k \in 1..Len(store) :
          /\ store[k].source = pipe.handler.source_name
          /\ store[k].release_date = "Feb 2025"
          /\ store[k].val = 1

\* The release_dates of the stored rows of a source.
StoredDates(st, source_name) ==
    {st[i].release_date : i \in {k \in 1..Len(st) : st[k].source = source_name}}

\* The rel_date labels of the records of an extract that have a code.
LabelsOf(h, records) ==
    {Handed(h, records[i], Null).rel_date
     : i \in {k \in 1..Len(records) : ~CodeMissing(records[k].code)}} \ {Null}

\* C14 as stated: after any sequence of pipeline runs of one source from an
\* empty store, on records without a release_date of their own, all stored
\* rows of the source share one release_date.
C14_AsStated ==
    pipe.pc \in {"idle", "returned"} =>
        Cardinality(StoredDates(store, pipe.handler.source_name)) <= 1

\* C14 (release-date stickiness across runs): the rows a first extract with
\* one rel_date label stores share that one release_date, and once the
\* stored rows of the source share one release_date every later step keeps
\* it the only one, whatever rel_date labels the later extracts carry.
C14_Stickiness ==
    [][LET source_name == pipe.handler.source_name
           before == StoredDates(store, source_name)
           after == StoredDates(store', source_name)
       IN  /\ Cardinality(before) = 1 => after = before
           /\ (before = {} /\ Cardinality(LabelsOf(pipe.handler, pipe.input)) <= 1)
                 => after \subseteq LabelsOf(pipe.handler, pipe.input)]_vars

\* A second run on an extract labelled "Feb 2025" has added a row to a store
\* whose one row the first run stored under "Jan 2025".
C14_Witness ==
    /\ pipe.pc = "returned" /\ pipe.status = "upserted"
    /\ run["a"].pc = "done" /\ started = 2
    /\ LabelsOf(pipe.handler, pipe.input) = {"Feb 2025"}
    /\ Len(pipe.input) = 2
    /\ Len(store) = 2
    /\ StoredDates(store, pipe.handler.source_name) = {"Jan 2025"}

\* C18 (no deletion by the core): no step of a reconcile run removes a stored
\* row: the ids in use only grow, and the row of an id stays the row of the
\* same source, code, release_date and geozip.
C18_NoDeletion ==
    [][/\ Len(store') >= Len(store)
       /\ \A id \in 1..Len(store) :
             ExistingKey(store'[id]) = ExistingKey(store[id])]_vars

\* A later run of a sequence has both updated a stored row and inserted a
\* new one.
C18_Witness ==
    /\ run["a"].pc = "done" /\ started = MaxRuns
    /\ run["a"].result.records_updated >= 1
    /\ run["a"].result.records_inserted >= 1
    /\ Len(store) > run["a"].rows0
    /\ \E id \in 1..run["a"].rows0, i \in 1..Len(run["a"].records) :
          /\ ExistingKey(store[id]) = RecordKey(run["a"].records[i])
          /\ store[id].val = run["a"].records[i].val

\* The records of a chunk that have, or have not, a stored row of their key.
WithRow(chunk, st, wanted) ==
    LET Test(rec) == (RowsOf(st, rec) # {}) = wanted
    IN  SelectSeq(chunk, Test)

\* C20 (insert/update partition): when the existence query of a chunk has
\* answered, the update set holds exactly the records of the chunk for which
\* a row with the same source, str(code), release_date and geozip was stored
\* when the query ran, each with the id of that row, and the insert set
\* holds the others; no insert is issued for a key that had a row.
C20_Partition ==
    [][(run["a"].pc = "query" /\ run'["a"].pc \in {"insert", "update"}) =>
          LET rn == run'["a"]
          IN  /\ rn.records_to_insert = WithRow(rn.chunk, store, FALSE)
              /\ [i \in 1..Len(rn.records_to_update)
                      |-> rn.records_to_update[i].rec]
                    = WithRow(rn.chunk, store, TRUE)
              /\ \A i \in 1..Len(rn.records_to_update) :
                    rn.records_to_update[i].id
                        \in RowsOf(store, rn.records_to_update[i].rec)]_vars

\* The edges of pending -> approved -> running -> completed | failed |
\* cancelled, cancellation being allowed from pending as well; a job starts
\* as pending.
Lifecycle ==
    {<<"none", "pending">>, <<"pending", "approved">>, <<"approved", "running">>,
     <<"running", "completed">>, <<"running", "failed">>,
     <<"running", "cancelled">>, <<"pending", "cancelled">>}

\* C19 (job status lifecycle): under any interleaving of request, approve,
\* dismiss and the background execution task, every change of a job's
\* status follows an edge of the lifecycle.
C19_Lifecycle ==
    [][\A j \in JobIds :
          jobs'[j].status # jobs[j].status =>
              <<jobs[j].status, jobs'[j].status>> \in Lifecycle]_vars

\* The part of C19 about the end of the lifecycle: a job that was cancelled
\* stays cancelled.
C19_CancelledStays ==
    [][\A j \in JobIds :
          jobs[j].status = "cancelled" => jobs'[j].status = "cancelled"]_vars

RECURSIVE Flatten(_)
\* The records of a list of _process_chunk calls, one after the other.
Flatten(calls) ==
    IF calls = <<>> THEN <<>> ELSE Head(calls).chunk \o Flatten(Tail(calls))

\* The calls of _process_chunk made by the chunk loop.
LoopCalls(rn) ==
    LET Test(c) == ~c.sample
    IN  SelectSeq(rn.handed, Test)

\* C21 (early-exit gating): a sample is taken only of a batch of more than
\* SAMPLE_SIZE records; reconcile returns already_synced only when the
\* sample gave no insert and at least one update and the stored rows of the
\* source, counted per release_date of the batch and summed, are at least
\* len(records); in every other case, a failing count query included, the
\* records after the sample go through the chunk loop.
C21_EarlyExitGating ==
    [][ReturnsNow =>
          LET rn == run'["a"]
              n == Len(rn.records)
          IN  /\ \A c \in RangeOf(rn.handed) : c.sample => n > SAMPLE_SIZE
              /\ rn.result.status = "already_synced" =>
                    /\ n > SAMPLE_SIZE
                    /\ run["a"].pc = "count"
                    /\ run["a"].chunk_inserted = 0
                    /\ run["a"].chunk_updated >= 1
                    /\ ~rn.count_failed
                    /\ SumCount(store, rn.source_name, ReleaseDates(rn.records)) >= n
              /\ (n > SAMPLE_SIZE /\ rn.result.status # "already_synced") =>
                    Flatten(LoopCalls(rn)) = SubSeq(rn.records, SAMPLE_SIZE + 1, n)]_vars

\* The sample found every record stored, the count query raised, and the
\* records after the sample went through the chunk loop.
C21_Witness ==
    /\ run["a"].pc = "done"
    /\ run["a"].count_failed
    /\ Len(run["a"].records) > SAMPLE_SIZE
    /\ run["a"].result.status = "success"
    /\ run["a"].result.records_inserted = 0
    /\ LoopCalls(run["a"]) # <<>>

\* The rows of the table that no record of the sample has the key of.
Unmatched(st, records) ==
    {i \in 1..Len(st) :
        \A k \in 1..Min2(SAMPLE_SIZE, Len(records)) :
            ExistingKey(st[i]) # RecordKey(records[k])}

\* C22: a run that returns already_synced has called chunk processing for the
\* sample only, so the table has the rows it had and every row that no sample
\* record matches is as it was; the result reports no insert, no failed
\* record and no failed chunk.
C22_EarlyExitFrame ==
    LET rn == run["a"]
    IN  (rn.pc = "done" /\ rn.result.status = "already_synced") =>
            /\ rn.handed = <<[num |-> 0, sample |-> TRUE,
                              chunk |-> SubSeq(rn.records, 1, SAMPLE_SIZE)]>>
            /\ Len(store) = Len(rn.store0)
            /\ \A i \in Unmatched(rn.store0, rn.records) : store[i] = rn.store0[i]
            /\ rn.result.records_inserted = 0
            /\ rn.result.records_failed = 0
            /\ rn.result.failed_chunks = <<>>

\* An early exit that left a row holding another rate than the batch's record
\* of the same key, which comes after the sample.
C22_Witness ==
    LET rn == run["a"]
    IN  /\ rn.pc = "done" /\ rn.result.status = "already_synced"
        /\ \E i \in Unmatched(rn.store0, rn.records) :
             \E k \in SAMPLE_SIZE + 1..Len(rn.records) :
                /\ ExistingKey(store[i]) = RecordKey(rn.records[k])
                /\ store[i].val # rn.records[k].val

\* What a run has counted so far: the totals and the chunk in progress.
Inserted(rn) == rn.total_inserted + rn.chunk_inserted
Updated(rn) == rn.total_updated + rn.chunk_updated

\* C23: a batch insert that fails is followed by one insert per record of the
\* insert set, in order from the first; each of them either stores the record
\* and counts it once as inserted, or meets the unique constraint and counts
\* once as updated, or raises and counts nothing; whatever the outcome the
\* next record is tried, and after the last one the update set is processed.
C23_InsertFallback ==
    [][LET rn == run["a"]
           nx == run'["a"]
       IN  /\ (rn.pc = "insert" /\ nx.pc # "insert" /\ store' = store) =>
                 /\ nx.pc = "single" /\ nx.k = 1
                 /\ nx.records_to_insert = rn.records_to_insert
                 /\ nx.chunk_inserted = 0
           /\ rn.pc = "single" =>
                 LET rec == rn.records_to_insert[rn.k]
                 IN  /\ \/ /\ store' = Append(store, RowOf(rec))
                            /\ Inserted(nx) = Inserted(rn) + 1
                            /\ Updated(nx) = Updated(rn)
                         \/ /\ store' = store /\ budget' = budget
                            /\ Conflicts(store, rec)
                            /\ Inserted(nx) = Inserted(rn)
                            /\ Updated(nx) = Updated(rn) + 1
                         \/ /\ store' = store /\ budget' = budget - 1
                            /\ Inserted(nx) = Inserted(rn)
                            /\ Updated(nx) = Updated(rn)
                     /\ rn.k < Len(rn.records_to_insert) =>
                            /\ nx.pc = "single" /\ nx.k = rn.k + 1
                            /\ nx.records_to_insert = rn.records_to_insert
                            /\ nx.records_to_update = rn.records_to_update
                     /\ (rn.k = Len(rn.records_to_insert)
                            /\ rn.records_to_update # <<>>) =>
                            /\ nx.pc = "update" /\ nx.k = 1
                            /\ nx.records_to_update = rn.records_to_update]_vars

\* The update set is being processed after a fallback in which no record was
\* stored and none met the unique constraint: every insert raised.
C23_Witness ==
    LET rn == run["a"]
    IN  /\ rn.pc = "update" /\ rn.k = 1
        /\ rn.records_to_insert # <<>>
        /\ rn.chunk_inserted = 0 /\ rn.chunk_updated = 0

\* C24: an update that raises leaves the row as it is and is not counted;
\* an update that is accepted writes the row and is counted once; either way
\* the next record of the update set is tried, the chunk is not marked
\* failed, and after the last record the loop goes on with the next chunk.
C24_UpdateFailure ==
    [][run["a"].pc = "update" =>
         LET rn == run["a"]
             nx == run'["a"]
             item == rn.records_to_update[rn.k]
             n == Len(rn.records)
         IN  /\ \/ /\ store' = UpdateRow(store, item.id, item.rec)
                    /\ budget' = budget
                    /\ Updated(nx) = Updated(rn) + 1
                 \/ /\ store' = store /\ budget' = budget - 1
                    /\ Updated(nx) = Updated(rn)
             /\ Inserted(nx) = Inserted(rn)
             /\ nx.failed_chunks = rn.failed_chunks
             /\ nx.total_failed = rn.total_failed
             /\ rn.k < Len(rn.records_to_update) =>
                    /\ nx.pc = "update" /\ nx.k = rn.k + 1
                    /\ nx.records_to_update = rn.records_to_update
             /\ (rn.k = Len(rn.records_to_update) /\ ~rn.in_sample) =>
                    IF rn.i + rn.chunk_size < n
                    THEN /\ nx.pc = "query"
                         /\ nx.chunk_num = rn.chunk_num + 1
                         /\ nx.chunk = SubSeq(rn.records, rn.i + rn.chunk_size + 1,
                                              Min2(rn.i + 2 * rn.chunk_size, n))
                    ELSE nx.pc = "done" /\ nx.result.status = "success"
             /\ (rn.k = Len(rn.records_to_update) /\ rn.in_sample) =>
                    \/ nx.pc = "count"
                    \/ /\ nx.pc = "query" /\ nx.chunk_num = 1
                       /\ nx.chunk = SubSeq(rn.records, SAMPLE_SIZE + 1,
                                            Min2(SAMPLE_SIZE + rn.chunk_size, n))]_vars

\* After a sample in which one update raised and the others were counted,
\* the first chunk of the loop is being processed.
C24_Witness ==
    LET rn == run["a"]
    IN  /\ rn.pc = "query" /\ ~rn.in_sample /\ rn.chunk_num = 1
        /\ Len(rn.records) > SAMPLE_SIZE
        /\ 0 \in rn.raised_in
        /\ rn.total_inserted = 0
        /\ rn.total_updated = SAMPLE_SIZE - 1
        /\ rn.failed_chunks = <<>>

\* The positions of a list at which a dedup key occurs for the first time,
\* and the number of them up to a position.
FirstOccurrences(h, input) ==
    {i \in 1..Len(input) :
        \A j \in 1..i - 1 : DedupKey(h, input[j]) # DedupKey(h, input[i])}

RankOf(h, input, i) ==
    Cardinality({j \in FirstOccurrences(h, input) : j <= i})

\* C25: when the dedup loop of insert_records has finished, the output has
\* one entry per distinct dedup key of the input, in the order in which the
\* keys occur first; the entry of a key is the last input record that has
\* the key; and duplicates_removed is len(input) - len(output).
C25_DedupOrder ==
    pipe.pc = "upsert" =>
        LET h == pipe.handler
            input == pipe.validated_records
            output == pipe.dedup.deduplicated_records
        IN  /\ Len(output) = Cardinality(FirstOccurrences(h, input))
            /\ \A i \in FirstOccurrences(h, input) :
                   LET m == RankOf(h, input, i)
                       same == {j \in 1..Len(input) :
                                  DedupKey(h, input[j]) = DedupKey(h, input[i])}
                   IN  /\ DedupKey(h, output[m]) = DedupKey(h, input[i])
                       /\ output[m] = input[Max(same)]
            /\ pipe.dedup.duplicates_removed = Len(input) - Len(output)

\* New Jersey DOBI: three records, the third with the key of the first and
\* another rate; the output holds the third record first, then the second.
C25_Witness ==
    LET input == pipe.validated_records
        output == pipe.dedup.deduplicated_records
    IN  /\ pipe.pc = "upsert"
        /\ pipe.handler.source_name = "New Jersey DOBI"
        /\ Len(input) = 3 /\ Len(output) = 2
        /\ output = <<input[3], input[2]>>
        /\ input[1] # input[3]
        /\ pipe.dedup.duplicates_removed = 1

\* C26: after any sequence of pipeline runs of one source, from an empty
\* table, with no storage failure and one writer, no two rows of the table
\* have the same (source, code, release_date, geozip), also when the table
\* itself accepts every insert.
C26_StoreUniqueness == UniqueRows(store)

Terminal == {"completed", "failed", "cancelled"}

\* C27: a job whose status is completed, failed or cancelled keeps that
\* status in every later step; a job dismissed while it runs stays cancelled
\* when its background task finishes.
C27_TerminalStable ==
    [][\A j \in JobIds :
          jobs[j].status \in Terminal => jobs'[j].status = jobs[j].status]_vars

RECURSIVE SumSizes(_, _)
\* The sizes of the loop's chunks whose numbers a list names, summed.
SumSizes(nums, calls) ==
    IF nums = <<>> THEN 0
    ELSE LET sizes == {Len(calls[i].chunk)
                       : i \in {k \in 1..Len(calls) : calls[k].num = Head(nums)}}
         IN  (IF sizes = {} THEN 0 ELSE Max(sizes)) + SumSizes(Tail(nums), calls)

\* C28: in every result the engine returns, records_upserted is
\* records_inserted + records_updated; inserted, updated and failed together
\* are at most the number of records; and records_failed is the summed size
\* of the chunks that failed_chunks lists.
C28_Accounting ==
    LET rn == run["a"]
        res == rn.result
    IN  rn.pc = "done" =>
            /\ res.records_upserted = res.records_inserted + res.records_updated
            /\ res.records_inserted + res.records_updated + res.records_failed
                   <= Len(rn.records)
            /\ res.records_failed = SumSizes(res.failed_chunks, LoopCalls(rn))

\* A run some of whose storage calls raised has returned success with
\* inserts and updates counted, and one record is in none of the counts.
C28_Witness ==
    LET rn == run["a"]
        res == rn.result
    IN  /\ rn.pc = "done" /\ rn.faulted
        /\ res.status = "success"
        /\ res.records_inserted >= 1 /\ res.records_updated >= 1
        /\ res.records_upserted = Len(rn.records) - 1

\* C29: when a run returns without the early exit, the calls of chunk
\* processing, put end to end, are the input records, each once and in
\* order: the first SAMPLE_SIZE as the sample when there are more than
\* SAMPLE_SIZE, the rest in chunks numbered 1, 2, ... of chunk_size records,
\* the last one possibly shorter; failed_chunks names chunks of the loop.
C29_ChunkCoverage ==
    LET rn == run["a"]
        n == Len(rn.records)
        loop == LoopCalls(rn)
    IN  (rn.pc = "done" /\ rn.result.status # "already_synced") =>
            /\ Flatten(rn.handed) = rn.records
            /\ n > SAMPLE_SIZE =>
                   rn.handed[1] = [num |-> 0, sample |-> TRUE,
                                   chunk |-> SubSeq(rn.records, 1, SAMPLE_SIZE)]
            /\ n <= SAMPLE_SIZE => loop = rn.handed
            /\ \A m \in 1..Len(loop) :
                   /\ loop[m].num = m
                   /\ Len(loop[m].chunk) >= 1
                   /\ Len(loop[m].chunk) <= rn.chunk_size
                   /\ m < Len(loop) => Len(loop[m].chunk) = rn.chunk_size
            /\ \A m \in 1..Len(rn.result.failed_chunks) :
                   rn.result.failed_chunks[m] \in 1..Len(loop)

\* A run with chunk_size 2 on 53 records: the sample, a full chunk and a
\* chunk of one record.
C29_Witness ==
    LET rn == run["a"]
    IN  /\ rn.pc = "done" /\ rn.result.status = "success"
        /\ rn.chunk_size = 2
        /\ Len(rn.records) = SAMPLE_SIZE + 3
        /\ Len(rn.handed) = 3
        /\ Len(rn.handed[2].chunk) = 2 /\ Len(rn.handed[3].chunk) = 1

\* C30: the scheduler sets to running only the job at its position in
\* job_ids, and the position only moves forward; no two jobs are running at
\* a time; a batch that was triggered reaches its summary whatever the jobs
\* do; and every job in job_ids eventually has a terminal status.
C30_CronProgress ==
    /\ [][\A j \in JobIds :
            (jobs'[j].status = "running" /\ jobs[j].status # "running") =>
                (cron.pc = "executing" /\ j = cron.job_ids[cron.k])]_vars
    /\ [][cron'.k >= cron.k]_vars
    /\ [](Cardinality({j \in JobIds : jobs[j].status = "running"}) <= 1)
    /\ (cron.pc = "creating") ~> (cron.pc = "done")
    /\ \A j \in JobIds :
          (j \in RangeOf(cron.job_ids)) ~> (jobs[j].status \in Terminal)

====
